---------------------------- MODULE Spec2Model ----------------------------
(***************************************************************************)
(* Federated-learning coordination: the central aggregator (CentralServer, *)
(* src/src/server.rs), the node actor (NodeActor, src/src/node.rs), the    *)
(* parameter codec (SimpleModel::to_params_vec / from_params_vec,          *)
(* src/src/model.rs) and the fire-and-forget HTTP transport between them.  *)
(*                                                                         *)
(* Every actor handles one message at a time (actix mailbox), so one       *)
(* action of this module is one complete handler invocation.               *)
(***************************************************************************)
EXTENDS Integers, Sequences, FiniteSets, Bags, TLC

(***************************************************************************)
(* Bounds of the model.                                                    *)
(***************************************************************************)
\* Largest TOTAL_NODES the aggregator is constructed with (0..MaxTotalNodes).
MaxTotalNodes == 3
\* Scaled-down topology of SimpleModel::new(10, 64, 1).
InputSize == 2
HiddenSize == 2
OutputSize == 1
\* Parameter updates the aggregator accepts in one run.
MaxUpdates == 3
\* Train requests the nodes handle in one run.
MaxTrains == 3
\* RegisterNode messages (status probes included) the aggregator handles
\* in one run.
MaxRegisters == 2
\* Messages in flight on the transport at one time.
MaxInFlight == 2

(***************************************************************************)
(* f32 values.  A value is a pair <<num, den>>: den >= 1 is the rational   *)
(* num/den in lowest terms, den = 0 is a non-finite float (<<1,0>> = +inf, *)
(* <<-1,0>> = -inf, <<0,0>> = NaN).  Sums and quotients that are integers  *)
(* are rounded to the 24-bit significand of f32 (round to nearest, ties to *)
(* even), which is exact f32 behaviour on integer-valued floats; a         *)
(* quotient that is not an integer is kept as the exact fraction.          *)
(***************************************************************************)
\* 2^24: every integer of magnitude up to it is an f32.
F32Exact == 16777216

Abs(x) == IF x < 0 THEN -x ELSE x

RECURSIVE GCD(_, _)
GCD(a, b) == IF b = 0 THEN a ELSE GCD(b, a % b)

RECURSIVE Spacing(_)
\* Distance between neighbouring f32 values at magnitude a (a >= 0).
Spacing(a) == IF a < F32Exact THEN 1 ELSE 2 * Spacing(a \div 2)

\* The f32 nearest to the integer x, ties to even.
RoundF32(x) ==
    LET a == Abs(x)
        u == Spacing(a)
        q == a \div u
        r == a % u
        m == IF 2 * r < u THEN q
             ELSE IF 2 * r > u THEN q + 1
             ELSE IF q % 2 = 0 THEN q ELSE q + 1
    IN  IF x < 0 THEN -(m * u) ELSE m * u

F(n) == <<n, 1>>
PosInf == <<1, 0>>
NegInf == <<-1, 0>>
NaN == <<0, 0>>
IsFinite(v) == v[2] # 0

\* num/den as a value: lowest terms, integers rounded to f32.
Norm(num, den) ==
    LET g == GCD(Abs(num), den)
        n == num \div g
        d == den \div g
    IN  IF d = 1 THEN <<RoundF32(n), 1>> ELSE <<n, d>>

\* `*a += *b` on f32.
FAdd(a, b) ==
    IF IsFinite(a) /\ IsFinite(b)
    THEN Norm(a[1] * b[2] + b[1] * a[2], a[2] * b[2])
    ELSE IF a = NaN \/ b = NaN THEN NaN
    ELSE IF IsFinite(a) THEN b
    ELSE IF IsFinite(b) THEN a
    ELSE IF a = b THEN a ELSE NaN

\* `*param /= n as f32` on f32.
FDiv(a, n) ==
    IF ~IsFinite(a) THEN a
    ELSE IF n = 0
         THEN (IF a[1] = 0 THEN NaN ELSE IF a[1] > 0 THEN PosInf ELSE NegInf)
    ELSE Norm(a[1], a[2] * n)

\* A Vec<f32> of integer-valued floats.
IntVec(s) == [i \in 1..Len(s) |-> F(s[i])]

(***************************************************************************)
(* SimpleModel and the parameter codec.  A matrix is a sequence of rows.   *)
(***************************************************************************)
W1Size == InputSize * HiddenSize
W2Size == HiddenSize * OutputSize
ParamCount == W1Size + HiddenSize + W2Size + OutputSize

\* The entries of a matrix in row-major order (ndarray's iter()).
RECURSIVE Flat(_)
Flat(m) == IF m = <<>> THEN <<>> ELSE Head(m) \o Flat(Tail(m))

to_params_vec(m) == Flat(m.w1) \o m.b1 \o Flat(m.w2) \o m.b2

\* Mutant of LoadMatrix: the index runs down the columns.
LoadMatrixColumnMajor(mat, cols, size, offset, params) ==
    [i \in 1..Len(mat) |->
        [j \in 1..cols |->
            LET idx == (j - 1) * Len(mat) + (i - 1)
            IN  IF idx < size /\ offset + idx < Len(params)
                THEN params[offset + idx + 1]
                ELSE mat[i][j]]]

\* One matrix segment of from_params_vec: entry [i, j] (0-based) takes
\* params[offset + i * cols + j] when that index is inside params.
LoadMatrix(mat, cols, size, offset, params) ==
    [i \in 1..Len(mat) |->
        [j \in 1..cols |->
            LET idx == (i - 1) * cols + (j - 1)
            IN  IF idx < size /\ offset + idx < Len(params)
                THEN params[offset + idx + 1]
                ELSE mat[i][j]]]

\* One bias segment of from_params_vec.
LoadVector(vec, offset, params) ==
    [i \in 1..Len(vec) |->
        IF offset + (i - 1) < Len(params)
        THEN params[offset + (i - 1) + 1]
        ELSE vec[i]]

\* Mutant of from_params_vec: only the first layer is loaded.
from_params_vec_torn(m, params) ==
    [w1 |-> LoadMatrix(m.w1, HiddenSize, W1Size, 0, params),
     b1 |-> LoadVector(m.b1, W1Size, params),
     w2 |-> m.w2,
     b2 |-> m.b2]

\* Mutant of from_params_vec: a vector of another length is refused.
from_params_vec_strict(m, params) ==
    IF Len(params) # ParamCount THEN m
    ELSE [w1 |-> LoadMatrix(m.w1, HiddenSize, W1Size, 0, params),
          b1 |-> LoadVector(m.b1, W1Size, params),
          w2 |-> LoadMatrix(m.w2, OutputSize, W2Size, W1Size + HiddenSize, params),
          b2 |-> LoadVector(m.b2, W1Size + HiddenSize + W2Size, params)]

from_params_vec(m, params) ==
    [w1 |-> LoadMatrix(m.w1, HiddenSize, W1Size, 0, params),
     b1 |-> LoadVector(m.b1, W1Size, params),
     w2 |-> LoadMatrix(m.w2, OutputSize, W2Size, W1Size + HiddenSize, params),
     b2 |-> LoadVector(m.b2, W1Size + HiddenSize + W2Size, params)]

\* SimpleModel::new: weights drawn inside the Xavier bound (here every
\* weight is the value w), biases zero.
NewModel(w) ==
    [w1 |-> [i \in 1..InputSize |-> [j \in 1..HiddenSize |-> w]],
     b1 |-> [i \in 1..HiddenSize |-> F(0)],
     w2 |-> [i \in 1..HiddenSize |-> [j \in 1..OutputSize |-> w]],
     b2 |-> [i \in 1..OutputSize |-> F(0)]]


\* build_model(): the freshly initialised models a process can start with.
InitWeight == <<1, 4>>
build_model == NewModel(InitWeight)

\* extract_params / update_model with the mutex acquired.
extract_params(m) == to_params_vec(m)

\* Mutant of update_model: only the weight matrices are loaded, the biases
\* stay.
update_model_weights_only(m, params) ==
    [from_params_vec(m, params) EXCEPT !.b1 = m.b1, !.b2 = m.b2]

update_model(m, params) == from_params_vec(m, params)

(***************************************************************************)
(* Addresses, messages and inputs.                                         *)
(***************************************************************************)
\* The node processes (their node_addr strings).
Nodes == {"n1", "n2"}
\* Addresses an HTTP client may put in a RegisterNode posted to the server.
ClientAddrs == {""}
\* The address the aggregator itself stands for on the transport.
ServerAddr == "server"

\* 2^24 as a weight: the smallest magnitude at which f32 addition rounds.
Big == F32Exact
Ramp == [i \in 1..ParamCount |-> F(i)]
ConstVec(c, len) == [i \in 1..len |-> F(c)]
\* Parameter vectors a node's model can hold after training (train() is an
\* external collaborator: any weights can result).
\* SimpleModel::train is an external collaborator, so any weights can
\* result: the k-th Train of a run leaves these.
TrainedVec(k) ==
    IF k = 0 THEN ConstVec(Big, ParamCount)
    ELSE IF k = 1 THEN ConstVec(-Big, ParamCount)
    ELSE Ramp
\* Parameter vectors an HTTP client posts in UpdateModel: shorter than,
\* and longer than, the model's parameter count.
ShortVecs == {IntVec(<<2, 4>>), IntVec(<<4, 6>>), IntVec(<<1, 1, 1>>),
              IntVec(<<5, 5>>), IntVec(<<>>)}
LongVec == ConstVec(7, ParamCount + 1)
\* What the aggregator's environment (clients and nodes alike) can post.
EnvVecs == ShortVecs \cup {Ramp, ConstVec(3, ParamCount), LongVec}
EnvAddrs == ClientAddrs \cup {"n1"}
\* Lengths <<data.len(), labels.len()>> of a posted Train request, and
\* data.len() of a posted Predict request.
TrainShapes == {<<10, 1>>, <<20, 2>>, <<15, 1>>, <<10, 2>>}
DataLens == {10, 15}
\* prepare_data's feature width.
Features == 10

None == <<>>
Some(v) == <<v>>

UpdateModelMsg(params) == [type |-> "UpdateModel", params |-> params, addr |-> ""]
RegisterNodeMsg(addr) == [type |-> "RegisterNode", params |-> <<>>, addr |-> addr]

VARIABLES
    total_nodes,        \* CentralServer.total_nodes
    nodes,              \* CentralServer.nodes (the registry)
    aggregated_params,  \* CentralServer.aggregated_params: None or Some(vec)
    model,              \* CentralServer.model (the global model)
    updates_received,   \* CentralServer.updates_received
    poisoned,           \* the global model's mutex is poisoned
    nodeModel,          \* NodeActor.model of each node
    nodePc,             \* where each node process is: "etcd" (run_node
                        \* waits for discovery::register_node), "new" (its
                        \* first Train is next), "serving", or "dead" (the
                        \* actor is gone)
    registerSent,       \* the run_later RegisterNode of each node has fired
    net,                \* bag of sends in flight: [to, from, msg]
    round,              \* history: the params accepted in the open round
    roundFrom,          \* history: who sent each of them
    last,               \* history: the handler invocation that ran last
    committed,          \* history: the aggregator's state as its completed
                        \* handlers left it: [vector, registry]
    nUpdates,           \* history: updates the aggregator accepted
    nRegisters,         \* history: RegisterNode messages it handled
    nTrains             \* history: Train requests the nodes handled

vars == <<total_nodes, nodes, aggregated_params, model, updates_received,
          poisoned, nodeModel, nodePc, registerSent, net, round, roundFrom,
          last, committed, nUpdates, nRegisters, nTrains>>
serverVars == <<nodes, aggregated_params, model, updates_received>>
nodeVars == <<nodeModel, nodePc, registerSent, nTrains>>

(***************************************************************************)
(* CentralServer.                                                          *)
(***************************************************************************)
Contains(seq, x) == \E i \in 1..Len(seq) : seq[i] = x

\* Mutant of RegisterAddr: no membership test.
RegisterAddrAlways(reg, addr) == Append(reg, addr)

\* `if !self.nodes.contains(&addr) { self.nodes.push(addr) }`
RegisterAddr(reg, addr) == IF Contains(reg, addr) THEN reg ELSE Append(reg, addr)

\* Mutant of ZipAdd: the excess of a longer update is appended to the
\* accumulator.
ZipAddExtend(aggregated, params) ==
    [i \in 1..(IF Len(params) > Len(aggregated) THEN Len(params)
                ELSE Len(aggregated)) |->
        IF i > Len(aggregated) THEN params[i]
        ELSE IF i <= Len(params) THEN FAdd(aggregated[i], params[i])
        ELSE aggregated[i]]

\* Mutant of ZipAdd: the sums are collected into a new accumulator, which
\* is as long as the shorter of the two.
ZipAddCollect(aggregated, params) ==
    [i \in 1..(IF Len(params) < Len(aggregated) THEN Len(params)
                ELSE Len(aggregated)) |-> FAdd(aggregated[i], params[i])]

\* `for (a, b) in aggregated.iter_mut().zip(msg.params.iter()) { *a += *b }`
ZipAdd(aggregated, params) ==
    [i \in 1..Len(aggregated) |->
        IF i <= Len(params) THEN FAdd(aggregated[i], params[i])
        ELSE aggregated[i]]

\* Mutant of Fold: an absent accumulator is not seeded.
FoldNoSeed(acc, params) ==
    IF acc # None THEN Some(ZipAdd(acc[1], params)) ELSE None

\* Mutant of Fold: a present accumulator is replaced by the update.
FoldReseed(acc, params) == Some(params)

\* The fold of one update into aggregated_params.
Fold(acc, params) ==
    IF acc # None THEN Some(ZipAdd(acc[1], params)) ELSE Some(params)

\* Mutant of RoundComplete: one update too late.
RoundCompleteLate(received, total) == received > total

\* `if self.updates_received >= self.total_nodes`
RoundComplete(received, total) == received >= total

\* Mutant of Average: divides by the number of registered addresses.
AverageByRegistry(aggregated, total, reg) ==
    [i \in 1..Len(aggregated) |-> FDiv(aggregated[i], Len(reg))]

\* `for param in aggregated.iter_mut() { *param /= self.total_nodes as f32 }`
Average(aggregated, total, reg) ==
    [i \in 1..Len(aggregated) |-> FDiv(aggregated[i], total)]

\* Mutant of BroadcastTarget: only the ping sentinel is skipped.
BroadcastTargetPingOnly(node) == node # "ping"

\* `if node != "ping" && !node.is_empty() && node != "direct"`
BroadcastTarget(node) == node # "ping" /\ node # "" /\ node # "direct"

\* The sends the broadcast loop spawns, in registry order.
BroadcastSends(reg, params) ==
    LET targets == SelectSeq(reg, BroadcastTarget)
    IN  [k \in 1..Len(targets) |->
            [to |-> targets[k], from |-> ServerAddr, msg |-> UpdateModelMsg(params)]]

\* CentralServer::aggregate_and_broadcast on the server state s.
aggregate_and_broadcast(s, total, lockFails) ==
    IF s.aggregated_params # None
    THEN LET averaged == Average(s.aggregated_params[1], total, s.nodes)
             s1 == [s EXCEPT !.aggregated_params = Some(averaged)]
         IN  IF lockFails
             THEN [state |-> s1, result |-> "Err", sends |-> <<>>]
             ELSE [state |-> [s1 EXCEPT !.model = update_model(s.model, averaged)],
                   result |-> "Ok",
                   sends |-> BroadcastSends(s.nodes, averaged)]
    ELSE [state |-> s, result |-> "Err", sends |-> <<>>]

\* Mutant of CloseRound: the closing update is counted into the new round.
CloseRoundCountsLast(s) ==
    [s EXCEPT !.updates_received = 1, !.aggregated_params = None]

\* Mutant of CloseRound: the counter survives the closure.
CloseRoundKeepCount(s) == [s EXCEPT !.aggregated_params = None]

\* Mutant of CloseRound: the accumulator survives the closure.
CloseRoundKeepAcc(s) == [s EXCEPT !.updates_received = 0]

\* `self.updates_received = 0; self.aggregated_params = None;`
CloseRound(s) == [s EXCEPT !.updates_received = 0, !.aggregated_params = None]

\* Mutant of CountUpdate: an update of an address the registry already
\* holds is not counted again.
CountUpdateOncePerAddr(received, reg, node_addr) ==
    IF Contains(reg, node_addr) THEN received ELSE received + 1

\* `self.updates_received += 1;` (reg is the registry before this update)
CountUpdate(received, reg, node_addr) == received + 1

\* Handler<ServerMessage>::handle.  Returns the new server state and what
\* the invocation did.
HandleServerMessage(s, total, node_addr, params, lockFails) ==
    LET folded == Fold(s.aggregated_params, params)
        s1 == [s EXCEPT !.nodes = RegisterAddr(s.nodes, node_addr),
                        !.updates_received =
                            CountUpdate(s.updates_received, s.nodes, node_addr),
                        !.aggregated_params = folded]
        base == [state |-> s1, reply |-> "Ok", attempted |-> FALSE,
                 closed |-> FALSE, error |-> "", sends |-> <<>>,
                 folded |-> folded, averaged |-> None]
    IN  IF RoundComplete(s1.updates_received, total)
        THEN LET r == aggregate_and_broadcast(s1, total, lockFails)
             IN  IF r.result = "Ok"
                 THEN [base EXCEPT !.state = CloseRound(r.state),
                                   !.attempted = TRUE, !.closed = TRUE,
                                   !.sends = r.sends,
                                   !.averaged = r.state.aggregated_params]
                 ELSE [base EXCEPT !.state = r.state, !.attempted = TRUE,
                                   !.error = IF s1.aggregated_params = None
                                             THEN "No parameters to aggregate"
                                             ELSE "Failed to update central model"]
        ELSE base

\* `.filter(|&addr| addr != "ping")`
GetNodesFilter(addr) == addr # "ping"

\* Handler<GetNodesRequest>::handle.
HandleGetNodes(reg) ==
    LET shown == SelectSeq(reg, GetNodesFilter)
    IN  [k \in 1..Len(shown) |-> [address |-> shown[k], status |-> "active"]]


(***************************************************************************)
(* NodeActor.                                                              *)
(***************************************************************************)
\* prepare_data: Array2::from_shape_vec((labels.len(), 10), data) succeeds
\* exactly when data.len() == labels.len() * 10; the labels always fit.
\* On failure .expect() panics.
prepare_data(dataLen, labelLen) == dataLen = labelLen * Features

\* The model whose weights, in codec order, are vec.
ModelOf(vec) == from_params_vec(build_model, vec)

\* NodeActor::send_to_server: one spawned POST to the aggregator.
send_to_server(n, msg) == [to |-> ServerAddr, from |-> n, msg |-> msg]

\* Mutant of HandleTrain: the parameters are extracted before training.
HandleTrainStale(n, m, dataLen, labelLen, trained) ==
    IF ~prepare_data(dataLen, labelLen)
    THEN [model |-> m, reply |-> "Panic", sends |-> <<>>, trained |-> FALSE]
    ELSE [model |-> trained, reply |-> "Ok",
          sends |-> <<send_to_server(n, UpdateModelMsg(extract_params(m)))>>,
          trained |-> TRUE]

\* Handler<NodeMessage>::handle, Train arm.  trained is the model that
\* SimpleModel::train leaves behind.
HandleTrain(n, m, dataLen, labelLen, trained) ==
    IF ~prepare_data(dataLen, labelLen)
    THEN [model |-> m, reply |-> "Panic", sends |-> <<>>, trained |-> FALSE]
    ELSE [model |-> trained, reply |-> "Ok",
          sends |-> <<send_to_server(n, UpdateModelMsg(extract_params(trained)))>>,
          trained |-> TRUE]

\* Handler<NodeMessage>::handle, Predict arm: Err when the data is not a
\* whole number of rows of width 10, and no change of state.
HandlePredict(dataLen) == IF dataLen % Features = 0 THEN "Ok" ELSE "Err"

(***************************************************************************)
(* The state machine.                                                      *)
(***************************************************************************)
Srv == [nodes |-> nodes, aggregated_params |-> aggregated_params,
        model |-> model, updates_received |-> updates_received]

NoLast == [actor |-> "", kind |-> "", addr |-> "", from |-> "",
           params |-> <<>>, reply |-> "", attempted |-> FALSE,
           closed |-> FALSE, error |-> "", sends |-> <<>>, folded |-> None,
           averaged |-> None, round |-> <<>>, senders |-> <<>>,
           listing |-> <<>>,
           vector |-> <<>>, trained |-> FALSE, shape |-> <<>>]

\* History: v laid over the first Len(v) positions of base, and a registry
\* with addr added at its end when it is new.
Overlay(base, v) ==
    [i \in 1..Len(base) |-> IF i <= Len(v) THEN v[i] ELSE base[i]]
AppendNew(reg, addr) ==
    IF \E i \in 1..Len(reg) : reg[i] = addr THEN reg ELSE Append(reg, addr)

\* Whether a POST to address `to` finds a listener: the aggregator, or a
\* node whose HTTP server run_node has started (after the first Train).
Listening(to) ==
    to = ServerAddr \/ (to \in Nodes /\ nodePc[to] \notin {"new", "etcd"})

\* The transport takes the sends of a handler: a send to a listener is in
\* flight while there is room, and fails at once otherwise.
RECURSIVE Dispatch(_, _)
Dispatch(bag, sends) ==
    IF sends = <<>> THEN bag
    ELSE IF Listening(Head(sends).to) /\ BagCardinality(bag) < MaxInFlight
         THEN Dispatch(bag (+) SetToBag({Head(sends)}), Tail(sends))
         ELSE Dispatch(bag, Tail(sends))

Take(bag, m) == bag (-) SetToBag({m})

\* Everything but total_nodes and the global model's weights.
InitRest ==
    /\ nodes = <<>>
    /\ aggregated_params = None
    /\ updates_received = 0
    /\ committed = [vector |-> to_params_vec(model), registry |-> <<>>]
    /\ poisoned = FALSE
    /\ nodeModel = [n \in Nodes |-> build_model]
    /\ registerSent = [n \in Nodes |-> FALSE]
    /\ net = EmptyBag
    /\ round = <<>>
    /\ roundFrom = <<>>
    /\ last = NoLast
    /\ nUpdates = 0
    /\ nRegisters = 0
    /\ nTrains = 0

\* CentralServer::new(*TOTAL_NODES) and NodeActor::new.
Init ==
    /\ total_nodes \in 0..MaxTotalNodes
    /\ model = build_model
    /\ nodePc = [n \in Nodes |-> "new"]
    /\ InitRest

\* The same with node processes that may have ETCD_ENDPOINTS set: run_node
\* then first waits for discovery::register_node.
InitNodes ==
    /\ total_nodes \in 0..MaxTotalNodes
    /\ model = build_model
    /\ nodePc \in [Nodes -> {"new", "etcd"}]
    /\ InitRest

\* The aggregator handles NodeMessage::UpdateModel{params}: the update is
\* handed to Handler<ServerMessage> under the address "direct".
AcceptUpdate(from, params, netLeft) ==
    /\ \E h \in {HandleServerMessage(Srv, total_nodes, "direct", params, poisoned)} :
           /\ nodes' = h.state.nodes
           /\ aggregated_params' = h.state.aggregated_params
           /\ model' = h.state.model
           /\ updates_received' = h.state.updates_received
           /\ net' = Dispatch(netLeft, h.sends)
           /\ round' = IF h.closed THEN <<>> ELSE Append(round, params)
           /\ roundFrom' = IF h.closed THEN <<>> ELSE Append(roundFrom, from)
           /\ last' = [NoLast EXCEPT !.actor = ServerAddr, !.kind = "UpdateModel",
                          !.addr = "direct", !.from = from, !.params = params,
                          !.reply = h.reply, !.attempted = h.attempted,
                          !.closed = h.closed, !.error = h.error,
                          !.sends = h.sends, !.folded = h.folded,
                          !.averaged = h.averaged,
                          !.round = Append(round, params),
                          !.senders = Append(roundFrom, from)]
           /\ committed' =
                  [vector |-> IF h.closed
                              THEN Overlay(committed.vector, h.averaged[1])
                              ELSE committed.vector,
                   registry |-> AppendNew(committed.registry, "direct")]
    /\ UNCHANGED <<total_nodes, poisoned, nodeVars, nRegisters>>

\* The same, counted: a run accepts at most MaxUpdates updates.
ServerUpdate(from, params, netLeft) ==
    /\ nUpdates < MaxUpdates
    /\ AcceptUpdate(from, params, netLeft)
    /\ nUpdates' = nUpdates + 1

\* The aggregator handles NodeMessage::RegisterNode{addr}.
ServerRegister(from, addr, netLeft) ==
    /\ nRegisters < MaxRegisters
    /\ nRegisters' = nRegisters + 1
    /\ nodes' = RegisterAddr(nodes, addr)
    /\ net' = netLeft
    /\ last' = [NoLast EXCEPT !.actor = ServerAddr, !.kind = "RegisterNode",
                   !.addr = addr, !.from = from, !.reply = "Ok"]
    /\ committed' = [committed EXCEPT !.registry = AppendNew(@, addr)]
    /\ UNCHANGED <<total_nodes, aggregated_params, model, updates_received,
                   poisoned, nodeVars, round, roundFrom, nUpdates>>

\* A send of a node reaches the aggregator's /message endpoint.
ServerDeliver ==
    \E m \in BagToSet(net) :
        /\ m.to = ServerAddr
        /\ IF m.msg.type = "UpdateModel"
           THEN ServerUpdate(m.from, m.msg.params, Take(net, m))
           ELSE ServerRegister(m.from, m.msg.addr, Take(net, m))

\* GET /status: get_server_status sends RegisterNode{addr: "ping"}.
StatusProbe == ServerRegister("status", "ping", net)

\* The environment posts any UpdateModel / RegisterNode to the aggregator.
EnvUpdate == \E v \in EnvVecs : ServerUpdate("env", v, net)
EnvRegister == \E a \in EnvAddrs : ServerRegister("env", a, net)

\* A Train or Predict posted to the aggregator: `_ => Ok(())`.
ServerIgnore == UNCHANGED vars

\* Mutant of GetNodes: the registry is drained into the listing.
GetNodesDrain ==
    /\ last' = [NoLast EXCEPT !.actor = ServerAddr, !.kind = "GetNodes",
                   !.from = "client", !.reply = "Ok",
                   !.listing = HandleGetNodes(nodes)]
    /\ last' # last
    /\ nodes' = <<>>
    /\ UNCHANGED <<total_nodes, aggregated_params, model, updates_received,
                   poisoned, nodeVars, net, round, roundFrom, committed, nUpdates,
                   nRegisters>>

\* GET /api/nodes.
GetNodes ==
    /\ last' = [NoLast EXCEPT !.actor = ServerAddr, !.kind = "GetNodes",
                   !.from = "client", !.reply = "Ok",
                   !.listing = HandleGetNodes(nodes)]
    /\ last' # last
    /\ UNCHANGED <<total_nodes, serverVars, poisoned, nodeVars, net, round, roundFrom,
                   committed, nUpdates, nRegisters>>

\* GET /api/model/params.
GetModelParams ==
    /\ last' = [NoLast EXCEPT !.actor = ServerAddr, !.kind = "GetModelParams",
                   !.from = "client",
                   !.reply = IF poisoned THEN "Err" ELSE "Ok",
                   !.vector = IF poisoned THEN <<>> ELSE extract_params(model)]
    /\ last' # last
    /\ UNCHANGED <<total_nodes, serverVars, poisoned, nodeVars, net, round, roundFrom,
                   committed, nUpdates, nRegisters>>

\* run_node: discovery::register_node returns (Ok or Err, both only
\* logged), and run_node goes on to the first Train.
EtcdRegistered(n) ==
    /\ nodePc[n] = "etcd"
    /\ nodePc' = [nodePc EXCEPT ![n] = "new"]
    /\ UNCHANGED <<total_nodes, serverVars, poisoned, nodeModel, registerSent,
                   nTrains, net, round, roundFrom, last, committed, nUpdates,
                   nRegisters>>

\* Mutant of NodeRegisterTimer: RegisterNode is sent in started() itself,
\* without run_later.
NodeRegisterAtStart(n) ==
    /\ nodePc[n] # "dead"
    /\ ~registerSent[n]
    /\ registerSent' = [registerSent EXCEPT ![n] = TRUE]
    /\ net' = Dispatch(net, <<send_to_server(n, RegisterNodeMsg(n))>>)
    /\ last' = [NoLast EXCEPT !.actor = n, !.kind = "Started",
                   !.sends = <<send_to_server(n, RegisterNodeMsg(n))>>]
    /\ UNCHANGED <<total_nodes, serverVars, poisoned, nodeModel, nodePc,
                   round, roundFrom, committed, nUpdates, nRegisters, nTrains>>

\* NodeActor::started's run_later fires, 1 s after the actor started: the
\* one RegisterNode send.  The first Train is in the mailbox before the
\* actor is first polled, unless run_node waits for etcd: then the timer
\* can fire before it.
NodeRegisterTimer(n) ==
    /\ nodePc[n] \in {"etcd", "serving"}
    /\ ~registerSent[n]
    /\ registerSent' = [registerSent EXCEPT ![n] = TRUE]
    /\ net' = Dispatch(net, <<send_to_server(n, RegisterNodeMsg(n))>>)
    /\ last' = [NoLast EXCEPT !.actor = n, !.kind = "Started",
                   !.sends = <<send_to_server(n, RegisterNodeMsg(n))>>]
    /\ UNCHANGED <<total_nodes, serverVars, poisoned, nodeModel, nodePc,
                   round, roundFrom, committed, nUpdates, nRegisters, nTrains>>

\* Mutant of NodeTrain: an UpdateModel in flight to the node is applied
\* after training and before the parameters are extracted.
NodeTrainInterleaved(n, from, dataLen, labelLen, vec) ==
    /\ nTrains < MaxTrains
    /\ \E h \in {HandleTrain(n, nodeModel[n], dataLen, labelLen,
                    IF \E x \in BagToSet(net) : x.to = n
                    THEN update_model(ModelOf(vec),
                             (CHOOSE x \in BagToSet(net) : x.to = n).msg.params)
                    ELSE ModelOf(vec))} :
           /\ nodeModel' = [nodeModel EXCEPT ![n] = h.model]
           /\ nodePc' = [nodePc EXCEPT ![n] = IF h.reply = "Panic" THEN "dead"
                                                ELSE "serving"]
           /\ net' = Dispatch(net, h.sends)
           /\ last' = [NoLast EXCEPT !.actor = n, !.kind = "Train",
                          !.from = from, !.reply = h.reply, !.sends = h.sends,
                          !.trained = h.trained,
                          !.shape = <<dataLen, labelLen>>,
                          !.vector = extract_params(h.model)]
    /\ nTrains' = nTrains + 1
    /\ UNCHANGED <<total_nodes, serverVars, poisoned, registerSent, round,
                   roundFrom, committed, nUpdates, nRegisters>>

\* A node handles Train{data, labels}.
NodeTrain(n, from, dataLen, labelLen, vec) ==
    /\ nTrains < MaxTrains
    /\ \E h \in {HandleTrain(n, nodeModel[n], dataLen, labelLen, ModelOf(vec))} :
           /\ nodeModel' = [nodeModel EXCEPT ![n] = h.model]
           /\ nodePc' = [nodePc EXCEPT ![n] = IF h.reply = "Panic" THEN "dead"
                                                ELSE "serving"]
           /\ net' = Dispatch(net, h.sends)
           /\ last' = [NoLast EXCEPT !.actor = n, !.kind = "Train",
                          !.from = from, !.reply = h.reply, !.sends = h.sends,
                          !.trained = h.trained,
                          !.shape = <<dataLen, labelLen>>,
                          !.vector = extract_params(h.model)]
    /\ nTrains' = nTrains + 1
    /\ UNCHANGED <<total_nodes, serverVars, poisoned, registerSent, round, roundFrom,
                   committed, nUpdates, nRegisters>>

\* run_node: the Train on generate_data(100), sent before the node's HTTP
\* server is started.
RunNodeTrain ==
    \E n \in Nodes :
        /\ nodePc[n] = "new"
        /\ NodeTrain(n, "run_node", 100 * Features, 100, TrainedVec(nTrains))

\* An HTTP client posts Train to a node (/train or /message).
ClientTrain ==
    \E n \in Nodes, shape \in TrainShapes :
        /\ nodePc[n] = "serving"
        /\ NodeTrain(n, "client", shape[1], shape[2], TrainedVec(nTrains))

\* A broadcast UpdateModel reaches a node's /message endpoint.
NodeDeliver ==
    \E m \in BagToSet(net) :
        /\ m.to \in Nodes
        /\ nodePc[m.to] = "serving"
        /\ nodeModel' = [nodeModel EXCEPT ![m.to] = update_model(@, m.msg.params)]
        /\ net' = Take(net, m)
        /\ last' = [NoLast EXCEPT !.actor = m.to, !.kind = "UpdateModel",
                       !.from = m.from, !.params = m.msg.params, !.reply = "Ok"]
        /\ UNCHANGED <<total_nodes, serverVars, poisoned, nodePc, registerSent,
                       round, roundFrom, committed, nUpdates, nRegisters, nTrains>>

\* An HTTP client posts Predict to a node, or GET /status probes it.
NodePredict ==
    \E n \in Nodes, dataLen \in DataLens :
        /\ nodePc[n] = "serving"
        /\ HandlePredict(dataLen) \in {"Ok", "Err"}
        /\ UNCHANGED vars

\* Mutant of Lose: the aggregator drops the target of a failed broadcast
\* send from its registry.
LoseUnregisters ==
    \E m \in BagToSet(net) :
        /\ net' = Take(net, m)
        /\ nodes' = IF m.from = ServerAddr
                    THEN SelectSeq(nodes, LAMBDA a : a # m.to)
                    ELSE nodes
        /\ UNCHANGED <<total_nodes, aggregated_params, model, updates_received,
                       poisoned, nodeVars, round, roundFrom, last, committed, nUpdates,
                       nRegisters>>

\* A send fails or is lost: nobody is told.
Lose ==
    \E m \in BagToSet(net) :
        /\ net' = Take(net, m)
        /\ UNCHANGED <<total_nodes, serverVars, poisoned, nodeVars, round, roundFrom, last,
                       committed, nUpdates, nRegisters>>

\* The global model's mutex becomes poisoned.
PoisonModel ==
    /\ ~poisoned
    /\ poisoned' = TRUE
    /\ UNCHANGED <<total_nodes, serverVars, nodeVars, net, round, roundFrom, last,
                   committed, nUpdates, nRegisters>>

Next ==
    \/ ServerDeliver
    \/ GetNodes
    \/ GetModelParams
    \/ \E n \in Nodes : EtcdRegistered(n)
    \/ \E n \in Nodes : NodeRegisterTimer(n)
    \/ RunNodeTrain
    \/ ClientTrain
    \/ NodeDeliver
    \/ NodePredict
    \/ Lose

Spec == InitNodes /\ [][Next]_vars

\* The aggregator alone, under an environment that posts any message at any
\* time: what nodes and clients send is indistinguishable to it.
NextAggregator ==
    \/ EnvUpdate
    \/ EnvRegister
    \/ StatusProbe
    \/ ServerIgnore
    \/ GetNodes
    \/ GetModelParams

SpecAggregator == Init /\ [][NextAggregator]_vars

\* The aggregator with a global-model mutex that can fail to lock.
NextPoison == NextAggregator \/ PoisonModel

SpecPoison == Init /\ [][NextPoison]_vars

(***************************************************************************)
(* The Round for as long as the process lives: updates keep being posted   *)
(* to /message, each is put in the aggregator's mailbox (`net`, at most    *)
(* MaxInFlight waiting), and the actor handles its mailbox fairly.  The    *)
(* run is not cut off after MaxUpdates updates.                            *)
(***************************************************************************)
RoundVecs == {Ramp, ConstVec(3, ParamCount), IntVec(<<2, 4>>)}

\* receive_server_message: server.send(msg) puts the update in the mailbox.
RoundPost ==
    \E v \in RoundVecs :
        /\ BagCardinality(net) < MaxInFlight
        /\ net' = net (+) SetToBag({[to |-> ServerAddr, from |-> "env",
                                     msg |-> UpdateModelMsg(v)]})
        /\ UNCHANGED <<total_nodes, serverVars, poisoned, nodeVars, round, roundFrom, last,
                       committed, nUpdates, nRegisters>>

\* The actor takes an update from its mailbox and handles it.
RoundDeliver ==
    \E m \in BagToSet(net) :
        /\ m.to = ServerAddr
        /\ AcceptUpdate(m.from, m.msg.params, Take(net, m))
        /\ nUpdates' = nUpdates

\* An update waits in the mailbox: RoundDeliver is enabled.
RoundPending == \E m \in BagToSet(net) : m.to = ServerAddr

NextRound == RoundPost \/ RoundDeliver

\* Updates keep arriving (WF_vars(RoundPost)) and the actor handles its
\* mailbox fairly: WF_vars(RoundDeliver), written out with RoundPending for
\* ENABLED <<RoundDeliver>>_vars (the handler has no guard, and handling
\* takes the update out of the mailbox).
SpecRound ==
    /\ Init /\ [][NextRound]_vars
    /\ WF_vars(RoundPost)
    /\ ([]<>(~RoundPending) \/ []<><<RoundDeliver>>_vars)

(***************************************************************************)
(* The parameter codec alone: to_params_vec and from_params_vec applied to *)
(* one SimpleModel (held in `model`), on vectors of every length from      *)
(* empty to one more than the parameter count.                             *)
(***************************************************************************)
CodecBases == {10, 20}
CodecVecs ==
    {[i \in 1..len |-> F(base + i)] :
        len \in 0..(ParamCount + 1), base \in CodecBases}
CodecModels == {build_model, ModelOf(Ramp)}

InitCodec ==
    /\ total_nodes = 0
    /\ model \in CodecModels
    /\ nodePc = [n \in Nodes |-> "new"]
    /\ InitRest

\* model.from_params_vec(&params); a run makes at most MaxUpdates calls.
Unflatten(params) ==
    /\ nUpdates < MaxUpdates
    /\ nUpdates' = nUpdates + 1
    /\ model' = from_params_vec(model, params)
    /\ last' = [NoLast EXCEPT !.actor = "codec", !.kind = "from_params_vec",
                   !.params = params, !.vector = to_params_vec(model),
                   !.reply = "Ok"]
    /\ UNCHANGED <<total_nodes, nodes, aggregated_params, updates_received,
                   poisoned, nodeVars, net, round, roundFrom, committed, nRegisters>>

LoadParams == \E v \in CodecVecs : Unflatten(v)

\* The model is loaded with its own flattening.
RoundTrip == Unflatten(to_params_vec(model))

\* model.to_params_vec().
ReadParams ==
    /\ last' = [NoLast EXCEPT !.actor = "codec", !.kind = "to_params_vec",
                   !.vector = to_params_vec(model), !.reply = "Ok"]
    /\ last' # last
    /\ UNCHANGED <<total_nodes, serverVars, poisoned, nodeVars, net, round, roundFrom,
                   committed, nUpdates, nRegisters>>

NextCodec == LoadParams \/ RoundTrip \/ ReadParams

SpecCodec == InitCodec /\ [][NextCodec]_vars


(***************************************************************************)
(* Properties.                                                             *)
(***************************************************************************)
Sentinels == {"ping", "direct", ""}
Elems(seq) == {seq[i] : i \in 1..Len(seq)}
NoDuplicates(seq) == \A i, j \in 1..Len(seq) : seq[i] = seq[j] => i = j
IsPrefix(a, b) == Len(a) <= Len(b) /\ SubSeq(b, 1, Len(a)) = a
Max(a, b) == IF a >= b THEN a ELSE b

\* The last handler invocation was the aggregator accepting an update.
ServerAccepted == last.actor = ServerAddr /\ last.kind = "UpdateModel"
EqualLengths(r, len) == \A k \in 1..Len(r) : Len(r[k]) = len

\* The f32 sum of position i of the first k vectors of r, left to right.
RECURSIVE SumColumn(_, _, _)
SumColumn(r, i, k) ==
    IF k = 1 THEN r[1][i] ELSE FAdd(SumColumn(r, i, k - 1), r[k][i])
\* Elementwise sum, and mean over n, of the equal-length vectors of r.
SumOf(r) == [i \in 1..Len(r[1]) |-> SumColumn(r, i, Len(r))]
MeanOf(r, n) == [i \in 1..Len(r[1]) |-> FDiv(SumColumn(r, i, Len(r)), n)]

\* C1 as claimed: the aggregator closes the round while it handles an update
\* exactly when that update is the total_nodes-th accepted since the last
\* closure (or since the start).
C1_ClosesOnNth ==
    ServerAccepted => (last.closed <=> Len(last.round) = total_nodes)

\* C1 amended: closure happens exactly on the max(total_nodes, 1)-th update
\* accepted since the last closure: on the N-th for N >= 1, and on every
\* update when the aggregator was constructed with total_nodes = 0.
C1_ClosesOnNthOrFirst ==
    ServerAccepted => (last.closed <=> Len(last.round) = Max(total_nodes, 1))

C1_Witness ==
    ServerAccepted /\ last.closed /\ total_nodes = 2 /\ Len(last.round) = 2

\* C2: when a round closes after total_nodes updates that all have the
\* model's parameter count as length, GetModelParams returns the elementwise
\* sum of those updates divided by total_nodes; and with total_nodes = 2 the
\* updates [2,4] then [4,6] average to [3,5], which the global vector then
\* starts with.
C2_AverageAtClosure ==
    (ServerAccepted /\ last.closed /\ Len(last.round) = total_nodes) =>
        /\ EqualLengths(last.round, ParamCount) =>
               extract_params(model) = MeanOf(last.round, total_nodes)
        /\ last.round = <<IntVec(<<2, 4>>), IntVec(<<4, 6>>)>> =>
               /\ last.averaged = Some(IntVec(<<3, 5>>))
               /\ SubSeq(extract_params(model), 1, 2) = IntVec(<<3, 5>>)

C2_Witness ==
    /\ ServerAccepted /\ last.closed /\ total_nodes = 2
    /\ last.round = <<Ramp, ConstVec(3, ParamCount)>>

\* C3: right after a closure updates_received is 0 and aggregated_params is
\* None, and the first update accepted after a closure (or after the start)
\* leaves an accumulator equal to its own vector.
C3_ResetAndReseed ==
    ServerAccepted =>
        /\ last.closed => updates_received = 0 /\ aggregated_params = None
        /\ Len(last.round) = 1 => last.folded = Some(last.params)

C3_Witness ==
    /\ ServerAccepted /\ ~last.closed /\ nUpdates = 3 /\ Len(last.round) = 1
    /\ aggregated_params = Some(last.params)

\* C4 as claimed: no entry of a GetNodes result has the address "ping",
\* "direct" or "".
C4_NoSentinelListed ==
    (last.actor = ServerAddr /\ last.kind = "GetNodes") =>
        \A i \in 1..Len(last.listing) : last.listing[i].address \notin Sentinels

\* C5: a closure dispatches exactly one UpdateModel send, carrying the
\* averaged vector, to each registered address that is no sentinel, and no
\* other send; an update that closes no round dispatches none.
C5_BroadcastTargets ==
    ServerAccepted =>
        IF last.closed
        THEN /\ \A a \in Elems(nodes) \ Sentinels :
                    Cardinality({k \in 1..Len(last.sends) : last.sends[k].to = a}) = 1
             /\ \A k \in 1..Len(last.sends) :
                    /\ last.sends[k].to \in Elems(nodes) \ Sentinels
                    /\ last.sends[k].msg.type = "UpdateModel"
                    /\ Some(last.sends[k].msg.params) = last.averaged
        ELSE last.sends = <<>>

C5_Witness ==
    /\ ServerAccepted /\ last.closed
    /\ Elems(nodes) = {"direct", "", "n1"}
    /\ Len(last.sends) = 1

\* C6 as claimed: once the aggregator has accepted an update that node A
\* sent, A is in the registry, and A is sent the broadcast when that update
\* closes the round.
C6_SenderRegistered ==
    (ServerAccepted /\ last.from \in Nodes) =>
        /\ last.from \in Elems(nodes)
        /\ last.closed => \E k \in 1..Len(last.sends) : last.sends[k].to = last.from

\* C7: the registry never holds an address twice and only grows at its end:
\* a RegisterNode or an update for an address it holds leaves it unchanged,
\* one for a new address appends that address, and nothing else changes it.
C7_RegistryAppendOnly ==
    [][/\ NoDuplicates(nodes')
       /\ IsPrefix(nodes, nodes')
       /\ IF nRegisters' # nRegisters \/ nUpdates' # nUpdates
          THEN nodes' = IF last'.addr \in Elems(nodes) THEN nodes
                        ELSE Append(nodes, last'.addr)
          ELSE nodes' = nodes]_vars

C7_Witness ==
    /\ last.actor = ServerAddr /\ last.kind = "RegisterNode"
    /\ nRegisters = 2 /\ nUpdates = 0 /\ Len(nodes) = 1

\* C8 as claimed: when the global model's mutex cannot be locked at a
\* closure, the caller gets an error, and the accumulator's elements,
\* updates_received and the global model are as they were when the closure
\* was attempted.
C8_NoPartialMutation ==
    [][(poisoned /\ nUpdates' # nUpdates /\ last'.attempted) =>
           /\ last'.reply = "Err"
           /\ aggregated_params' = last'.folded
           /\ updates_received' = updates_received + 1
           /\ model' = model]_vars

\* C9 as claimed: a Train whose lengths violate data.len() == 10 *
\* labels.len() returns an error value to its caller, trains nothing, leaves
\* the node's model unchanged, sends nothing, and the node actor lives on.
C9_ShapeMismatchIsError ==
    [][(nTrains' # nTrains /\ ~prepare_data(last'.shape[1], last'.shape[2])) =>
           /\ last'.reply = "Err"
           /\ ~last'.trained
           /\ nodeModel' = nodeModel
           /\ last'.sends = <<>> /\ net' = net
           /\ nodePc'[last'.actor] # "dead"]_vars

\* The arrangements of the vectors of r in every order.
Orders(r) ==
    {[k \in 1..Len(r) |-> r[p[k]]] :
        p \in {q \in [1..Len(r) -> 1..Len(r)] :
                  \A i, j \in 1..Len(r) : q[i] = q[j] => i = j}}

\* C10 as claimed: the updates of a round are each folded in once, and the
\* vector averaged at closure is the same in whatever order they arrived.
C10_OrderIndependent ==
    (ServerAccepted /\ last.closed /\ EqualLengths(last.round, ParamCount)) =>
        \A r \in Orders(last.round) :
            last.averaged = Some(MeanOf(r, total_nodes))

\* C10 amended: each update of a round is folded in exactly once, in arrival
\* order: the accumulator is the left-to-right f32 sum of the updates
\* accepted so far, and the vector averaged at closure and loaded into the
\* global model is that sum divided by total_nodes; it is the same for
\* every arrival order when total_nodes <= 2 (f32 addition is commutative
\* but not associative).
C10_FoldedOnceInArrivalOrder ==
    /\ (aggregated_params # None /\ EqualLengths(round, ParamCount)) =>
           aggregated_params = Some(SumOf(round))
    /\ (ServerAccepted /\ last.closed /\ EqualLengths(last.round, ParamCount)) =>
           /\ last.averaged = Some(MeanOf(last.round, total_nodes))
           /\ extract_params(model) = MeanOf(last.round, total_nodes)
           /\ total_nodes <= 2 =>
                  \A r \in Orders(last.round) :
                      last.averaged = Some(MeanOf(r, total_nodes))

C10_Witness ==
    /\ ServerAccepted /\ last.closed /\ total_nodes = 2
    /\ last.round = <<TrainedVec(1), TrainedVec(0)>>

\* The last handler invocation was the aggregator answering this query.
Queried(kind) == last.actor = ServerAddr /\ last.kind = kind
NotPing(addr) == addr # "ping"

\* C11: a GetModelParams result is the global vector as the completed
\* handlers left it (the initial model, overlaid by the whole average of
\* every closure so far, never by a part of one), and a GetNodes result
\* shows the registry as the completed handlers left it (its "ping" entry
\* is not shown).
C11_QueriesSeeCommittedState ==
    /\ (Queried("GetModelParams") /\ last.reply = "Ok") =>
           last.vector = committed.vector
    /\ Queried("GetNodes") =>
           [k \in 1..Len(last.listing) |-> last.listing[k].address] =
               SelectSeq(committed.registry, NotPing)

C11_Witness ==
    /\ Queried("GetModelParams") /\ last.reply = "Ok"
    /\ nUpdates = 2 /\ total_nodes = 2 /\ updates_received = 0
    /\ last.vector = MeanOf(<<Ramp, ConstVec(3, ParamCount)>>, 2)

Min(a, b) == IF a <= b THEN a ELSE b

\* C12: an update accepted while an accumulator is present is added to it
\* position by position over the first min(len(accumulator), len(update))
\* positions, the accumulator's other positions and its length stay as they
\* were, and no error results; accumulator [1,1,1] receiving [5,5] becomes
\* [6,6,1].
C12_AddOverShorterLength ==
    [][(nUpdates' # nUpdates /\ aggregated_params # None) =>
           LET acc == aggregated_params[1]
               upd == last'.params
               new == last'.folded[1]
               both == Min(Len(acc), Len(upd))
           IN  /\ last'.reply = "Ok" /\ last'.error = ""
               /\ last'.folded # None
               /\ Len(new) = Len(acc)
               /\ \A i \in 1..both : new[i] = FAdd(acc[i], upd[i])
               /\ \A i \in (both + 1)..Len(acc) : new[i] = acc[i]
               /\ (acc = IntVec(<<1, 1, 1>>) /\ upd = IntVec(<<5, 5>>)) =>
                      new = IntVec(<<6, 6, 1>>)]_vars

C12_Witness ==
    /\ ServerAccepted /\ ~last.closed
    /\ last.round = <<IntVec(<<1, 1, 1>>), IntVec(<<5, 5>>)>>
    /\ aggregated_params = Some(IntVec(<<6, 6, 1>>))

\* A step that is one call of from_params_vec.
Unflattened == nUpdates' # nUpdates /\ last'.kind = "from_params_vec"

\* C13: loading a model with its own flattening leaves its layer-1 weights,
\* layer-1 bias, layer-2 weights and layer-2 bias as they were, and after a
\* model is loaded with a vector of exactly its parameter count its
\* flattening is that vector.
C13_RoundTrip ==
    [][Unflattened =>
           /\ last'.params = to_params_vec(model) =>
                  /\ model'.w1 = model.w1 /\ model'.b1 = model.b1
                  /\ model'.w2 = model.w2 /\ model'.b2 = model.b2
           /\ Len(last'.params) = ParamCount =>
                  to_params_vec(model') = last'.params]_vars

C13_Witness ==
    /\ last.kind = "from_params_vec" /\ last.params = last.vector
    /\ model = ModelOf(Ramp)

\* C14: loading a vector shorter than the parameter count overwrites the
\* first len(v) positions of the model's flattening with v and leaves the
\* later positions as they were; of a longer vector the first ParamCount
\* elements are loaded and the rest ignored; either way the call succeeds.
C14_Truncation ==
    [][Unflattened =>
           /\ last'.reply = "Ok"
           /\ Len(to_params_vec(model')) = ParamCount
           /\ \A i \in 1..ParamCount :
                  to_params_vec(model')[i] =
                      IF i <= Len(last'.params) THEN last'.params[i]
                      ELSE to_params_vec(model)[i]]_vars

C14_Witness ==
    /\ last.kind = "from_params_vec" /\ Len(last.params) = W1Size + 1
    /\ last.vector = Ramp
    /\ to_params_vec(model) =
           SubSeq(last.params, 1, W1Size + 1) \o
           SubSeq(Ramp, W1Size + 2, ParamCount)

\* C15: a GetNodes or GetModelParams handled by the aggregator leaves the
\* registry, updates_received, the accumulator and the global model as they
\* were and dispatches no send.
C15_QueriesHaveNoEffect ==
    [][(last' # last /\ last'.actor = ServerAddr
           /\ last'.kind \in {"GetNodes", "GetModelParams"}) =>
           /\ nodes' = nodes
           /\ updates_received' = updates_received
           /\ aggregated_params' = aggregated_params
           /\ model' = model
           /\ last'.sends = <<>> /\ net' = net]_vars

C15_Witness ==
    /\ Queried("GetNodes") /\ Len(last.listing) = 2
    /\ updates_received = 1 /\ aggregated_params # None
    /\ BagCardinality(net) = 1

\* The RegisterNode sends of node n among the sends of a handler.
RegisterSends(sends, n) ==
    {k \in 1..Len(sends) :
        sends[k].from = n /\ sends[k].msg.type = "RegisterNode"}

\* C16 as claimed: over its lifetime a node dispatches exactly one
\* RegisterNode send, to the aggregator and carrying its own address: a
\* handler dispatches one only when none was dispatched before, whatever
\* became of it, and a node actor whose life has ended has dispatched its
\* one.
C16_RegistersExactlyOnce ==
    [][\A n \in Nodes :
           /\ (last' # last /\ RegisterSends(last'.sends, n) # {}) =>
                  /\ Cardinality(RegisterSends(last'.sends, n)) = 1
                  /\ ~registerSent[n] /\ registerSent'[n]
                  /\ \A k \in RegisterSends(last'.sends, n) :
                         /\ last'.sends[k].to = ServerAddr
                         /\ last'.sends[k].msg.addr = n
           /\ registerSent[n] => registerSent'[n]
           /\ nodePc'[n] = "dead" => registerSent'[n]]_vars

\* C17: a Train that returns success has trained the model and dispatched
\* exactly one send, an UpdateModel to the aggregator carrying the
\* flattening of the node's model as training left it; it returns success
\* in the same handler, whatever becomes of the send afterwards.
C17_TrainSendsOnce ==
    (last.kind = "Train" /\ last.actor \in Nodes /\ last.reply = "Ok") =>
        /\ last.trained
        /\ last.sends =
               <<[to |-> ServerAddr, from |-> last.actor,
                  msg |-> UpdateModelMsg(to_params_vec(nodeModel[last.actor]))]>>

\* A Train returned success although its send failed at once.
C17_Witness ==
    /\ last.kind = "Train" /\ last.actor \in Nodes /\ last.reply = "Ok"
    /\ last.from = "client"
    /\ nodeModel[last.actor] = ModelOf(Ramp)
    /\ last.sends[1] \notin BagToSet(net)

\* A step in which no handler ran and a send in flight came to nothing.
SendFailed ==
    /\ net' # net /\ last' = last
    /\ nUpdates' = nUpdates /\ nRegisters' = nRegisters /\ nTrains' = nTrains

\* C18: whatever becomes of a dispatched send, its issuer's state stays as
\* it was.  A send that fails or is lost changes neither the aggregator's
\* registry, updates_received, accumulator and global model (a closure is
\* not rolled back) nor any node's state, and puts no send in flight (no
\* retry); a send of a node delivered to the aggregator changes no node's
\* state, a broadcast send delivered to a node changes nothing of the
\* aggregator; and the only sends that come in flight are those of the
\* handler that ran.
C18_OutcomeNeverReachesIssuer ==
    [][/\ SendFailed =>
              /\ serverVars' = serverVars /\ nodeVars' = nodeVars
              /\ net' \sqsubseteq net
       /\ (nUpdates' # nUpdates \/ nRegisters' # nRegisters) =>
              nodeModel' = nodeModel /\ nodePc' = nodePc
                  /\ registerSent' = registerSent
       /\ (last' # last /\ last'.actor \in Nodes /\ last'.kind = "UpdateModel") =>
              serverVars' = serverVars
       /\ \A m \in BagToSet(net') :
              CopiesIn(m, net') > CopiesIn(m, net) =>
                  /\ last' # last \/ nUpdates' # nUpdates
                         \/ nRegisters' # nRegisters \/ nTrains' # nTrains
                  /\ \E k \in 1..Len(last'.sends) : last'.sends[k] = m]_vars

\* A round was closed, its broadcast send came to nothing, and the closure
\* stands.
C18_Witness ==
    /\ ServerAccepted /\ last.closed /\ updates_received = 0
    /\ Len(last.sends) = 1 /\ nodePc[last.sends[1].to] = "serving"
    /\ net = EmptyBag
    /\ to_params_vec(model) = last.averaged[1]
    /\ to_params_vec(nodeModel[last.sends[1].to]) # last.averaged[1]

\* C19 as claimed: between two handlers of the aggregator
\* updates_received < total_nodes, total_nodes is what the aggregator was
\* constructed with, and the accumulator is present exactly when
\* updates_received > 0.
C19_RoundOpen ==
    /\ [](/\ updates_received < total_nodes
          /\ aggregated_params # None <=> updates_received > 0)
    /\ [][total_nodes' = total_nodes]_vars

\* C19 amended: the same with updates_received < max(total_nodes, 1): an
\* aggregator constructed with total_nodes = 0 closes a round on every
\* update, so between handlers its updates_received is 0, which is not
\* below total_nodes.
C19_RoundOpenOrEmpty ==
    /\ [](/\ updates_received < Max(total_nodes, 1)
          /\ aggregated_params # None <=> updates_received > 0)
    /\ [][total_nodes' = total_nodes]_vars

\* A second round is open after the first was closed.
C19_Witness ==
    /\ ServerAccepted /\ nUpdates = 3 /\ total_nodes = 2
    /\ updates_received = 1 /\ aggregated_params = Some(last.params)

\* C20: the Round never ends.  In every reachable state the aggregator's
\* handler accepts a further update, and, with updates that keep arriving
\* and a mailbox handled fairly, again and again an update is handled that
\* closes the round and leaves a new round with updates_received = 0.
C20_RoundNeverEnds ==
    /\ [](\A v \in RoundVecs :
             \E h \in {HandleServerMessage(Srv, total_nodes, "direct", v,
                                           poisoned)} :
                 /\ h.reply = "Ok"
                 /\ h.state.updates_received =
                        IF h.closed THEN 0 ELSE updates_received + 1)
    /\ []<><<RoundDeliver /\ last'.closed /\ updates_received' = 0
                /\ aggregated_params' = None>>_vars

\* A third round is open: two were closed before it.
C20_Witness ==
    /\ ServerAccepted /\ total_nodes = 2 /\ updates_received = 1
    /\ committed.vector = ConstVec(3, ParamCount)
    /\ last.params = Ramp /\ BagCardinality(net) = MaxInFlight

\* C21: updates are counted whoever sent them.  With total_nodes >= 1 a
\* round closes on its total_nodes-th update, whether the updates of the
\* round come from one address or from several, and the vector averaged at
\* closure is their sum divided by total_nodes, not by the number of
\* distinct senders.
C21_CountsUpdatesNotSenders ==
    ServerAccepted =>
        /\ Len(last.senders) = Len(last.round)
        /\ total_nodes >= 1 =>
               (last.closed <=> Len(last.senders) = total_nodes)
        /\ (last.closed /\ EqualLengths(last.round, ParamCount)) =>
               last.averaged = Some(MeanOf(last.round, total_nodes))

\* A round of two updates of the same node was closed.
C21_Witness ==
    /\ ServerAccepted /\ last.closed /\ total_nodes = 2
    /\ last.senders = <<"n1", "n1">>
    /\ last.round = <<TrainedVec(0), TrainedVec(2)>>

\* C22: no closure is attempted while the accumulator is absent: the error
\* "No parameters to aggregate" never occurs, whatever total_nodes is and
\* whatever is posted (an empty parameter vector included).
C22_NeverClosesWithoutAccumulator ==
    /\ last.error # "No parameters to aggregate"
    /\ (ServerAccepted /\ last.attempted) => last.folded # None

\* A closure was attempted on an accumulator seeded by an empty vector.
C22_Witness ==
    /\ ServerAccepted /\ last.attempted /\ last.closed
    /\ last.round = <<IntVec(<<>>)>> /\ last.averaged = Some(IntVec(<<>>))

\* The f32 sum, left to right, of position i of those of the first k
\* vectors of r that have a position i (the first one has).
RECURSIVE SumPresent(_, _, _)
SumPresent(r, i, k) ==
    IF k = 1 THEN r[1][i]
    ELSE IF i <= Len(r[k]) THEN FAdd(SumPresent(r, i, k - 1), r[k][i])
    ELSE SumPresent(r, i, k - 1)

\* C25: while a round is open its accumulator is as long as the first
\* update accepted in the round, whatever the lengths of the later ones
\* (of a longer one only the first len(accumulator) elements are added),
\* and the vector averaged and loaded into the global model at closure has
\* that length.
C25_AccumulatorKeepsFirstLength ==
    /\ aggregated_params # None =>
           /\ round # <<>>
           /\ Len(aggregated_params[1]) = Len(round[1])
    /\ ServerAccepted =>
           /\ Len(last.folded[1]) = Len(last.round[1])
           /\ \A i \in 1..Len(last.folded[1]) :
                  last.folded[1][i] = SumPresent(last.round, i, Len(last.round))
           /\ last.closed => Len(last.averaged[1]) = Len(last.round[1])

\* A round that began with a short update received a longer one.
C25_Witness ==
    /\ ServerAccepted /\ ~last.closed
    /\ last.round = <<IntVec(<<2, 4>>), LongVec>>
    /\ aggregated_params = Some(IntVec(<<9, 11>>))

\* C23: a Train handler runs alone on its node.  The vector it dispatches
\* and the model it leaves are what its own training produced, and every
\* UpdateModel in flight to the node when the handler starts is still in
\* flight when it returns (it is applied by a later handler).
C23_TrainRunsAlone ==
    [][(nTrains' # nTrains /\ last'.reply = "Ok") =>
           /\ last'.sends[1].msg.params = TrainedVec(nTrains)
           /\ to_params_vec(nodeModel'[last'.actor]) = TrainedVec(nTrains)
           /\ \A m \in BagToSet(net) :
                  m.to = last'.actor => CopiesIn(m, net') >= CopiesIn(m, net)]_vars

\* A Train was handled while a broadcast to the node was in flight.
C23_Witness ==
    /\ last.kind = "Train" /\ last.actor \in Nodes /\ last.reply = "Ok"
    /\ \E m \in BagToSet(net) :
           /\ m.to = last.actor /\ m.msg.type = "UpdateModel"
           /\ m.msg.params # last.sends[1].msg.params

\* C24: after a node has processed an UpdateModel whose vector has the
\* model's parameter count, the flattening of the node's model is that
\* vector, whatever the model held before: the node holds the parameters of
\* the UpdateModel it processed last, which may differ from the global
\* vector of the round closed last.
C24_LastProcessedWins ==
    (last.actor \in Nodes /\ last.kind = "UpdateModel"
        /\ Len(last.params) = ParamCount) =>
        /\ last.reply = "Ok"
        /\ to_params_vec(nodeModel[last.actor]) = last.params

\* A node processed a broadcast of an earlier round after a later round
\* was closed.
C24_Witness ==
    /\ last.actor \in Nodes /\ last.kind = "UpdateModel"
    /\ Len(last.params) = ParamCount
    /\ last.params # committed.vector
    /\ to_params_vec(nodeModel[last.actor]) # committed.vector

\* Node n's RegisterNode send is dispatched in this step.
RegisterFires(n) == registerSent'[n] /\ ~registerSent[n]
Broadcastable(reg) == Elems(reg) \ Sentinels
\* A closure whatever the registry holds: the round closes on its
\* max(total_nodes, 1)-th update also when no address can be broadcast to;
\* the global model is then loaded with the average, the round is reset
\* and no send is dispatched.
ClosesWithoutTargets ==
    (ServerAccepted /\ Len(last.round) >= Max(total_nodes, 1)
        /\ Broadcastable(nodes) = {}) =>
        /\ last.closed /\ last.sends = <<>>
        /\ updates_received = 0 /\ aggregated_params = None
        /\ to_params_vec(model) =
               Overlay(to_params_vec(model), last.averaged[1])

\* C26 as claimed: a node's RegisterNode send is dispatched only after its
\* first UpdateModel send (its first Train has been handled), and a closure
\* does not depend on the registry.
C26_UpdateBeforeRegister ==
    /\ [][\A n \in Nodes : RegisterFires(n) => nodePc[n] = "serving"]_vars
    /\ []ClosesWithoutTargets

\* C26 amended: the same, unless the RegisterNode timer fires while
\* run_node is still waiting for the optional etcd registration, which
\* comes before the first Train.
C26_UpdateBeforeRegisterUnlessEtcd ==
    /\ [][\A n \in Nodes :
              (RegisterFires(n) /\ nodePc[n] # "etcd") =>
                  nodePc[n] = "serving"]_vars
    /\ []ClosesWithoutTargets

\* A node's first update closed a round before the node's RegisterNode was
\* dispatched: only "direct" is registered and nothing was broadcast.
C26_Witness ==
    /\ ServerAccepted /\ last.closed /\ last.from \in Nodes
    /\ ~registerSent[last.from] /\ nodePc[last.from] = "serving"
    /\ nodes = <<"direct">> /\ last.sends = <<>>
    /\ updates_received = 0
    /\ to_params_vec(model) = last.averaged[1]

=============================================================================
